---------------------------- MODULE Spec2Model ----------------------------
(***************************************************************************)
(* TrussAnalysis (examples/dmo_truss/dmo_truss_analysis.py): the analysis  *)
(* object of the discrete-material truss problem, as a state machine.      *)
(*                                                                         *)
(* Floating-point numbers are modelled as exact rationals <<n, d>> in      *)
(* lowest terms with d > 0.  numpy vectors are functions over 0..n-1 and   *)
(* matrices are functions over 0..n-1 of such vectors, so that the code's  *)
(* 0-based index arithmetic (nblock*i + j, 2*node + index) is kept.        *)
(***************************************************************************)
EXTENDS Integers, Sequences, FiniteSets, TLC

----------------------------------------------------------------------------
(* Bounds of the model.                                                    *)

\* The longest call sequence explored on one instance.
MaxCalls == 2

\* Penalty weights gamma[i] are drawn from 1..MaxGamma.
MaxGamma == 2
\* entries of the direction vectors px, pz: the integers -1..MaxCoef
MaxCoef == 1
\* bar areas handed to assembleMat directly: the integers 0..MaxArea
MaxArea == 2

----------------------------------------------------------------------------
(* Exact arithmetic standing for numpy float64 arithmetic.                 *)

Abs(a) == IF a < 0 THEN -a ELSE a

RECURSIVE Gcd(_, _)
Gcd(a, b) == IF b = 0 THEN a ELSE Gcd(b, a % b)

Zero == <<0, 1>>
One  == <<1, 1>>
Two  == <<2, 1>>
Half == <<1, 2>>

\* The rational n/d in lowest terms, d > 0.
Rat(n, d) ==
    IF n = 0 THEN Zero
    ELSE IF d < 0 THEN <<(-n) \div Gcd(Abs(n), -d), (-d) \div Gcd(Abs(n), -d)>>
    ELSE <<n \div Gcd(Abs(n), d), d \div Gcd(Abs(n), d)>>

\* a + b over the least common denominator, which keeps the integers small
RAdd(a, b) ==
    IF a[1] = 0 THEN b
    ELSE IF b[1] = 0 THEN a
    ELSE IF a[2] = b[2] THEN Rat(a[1] + b[1], a[2])
    ELSE Rat(a[1] * (b[2] \div Gcd(a[2], b[2])) + b[1] * (a[2] \div Gcd(a[2], b[2])),
             (a[2] \div Gcd(a[2], b[2])) * b[2])
RNeg(a)    == <<-a[1], a[2]>>
RSub(a, b) == RAdd(a, RNeg(b))
\* a * b, cross-reduced before multiplying
RMul(a, b) ==
    IF a[1] = 0 \/ b[1] = 0 THEN Zero
    ELSE <<(a[1] \div Gcd(Abs(a[1]), b[2])) * (b[1] \div Gcd(Abs(b[1]), a[2])),
           (a[2] \div Gcd(Abs(b[1]), a[2])) * (b[2] \div Gcd(Abs(a[1]), b[2]))>>
RDiv(a, b) == RMul(a, IF b[1] < 0 THEN <<-b[2], -b[1]>> ELSE <<b[2], b[1]>>)
RLt(a, b)  == RSub(a, b)[1] < 0
RLe(a, b)  == RSub(a, b)[1] <= 0
RMax(a, b) == IF RLt(a, b) THEN b ELSE a

\* np.sqrt on a perfect square (bar lengths of the models below are integers)
Sqrt(n) == CHOOSE r \in 0..n : r * r = n

\* sum of v[k] for k in lo..hi
RECURSIVE RSum(_, _, _)
RSum(v, lo, hi) == IF hi < lo THEN Zero ELSE RAdd(RSum(v, lo, hi - 1), v[hi])

Len0(v) == Cardinality(DOMAIN v)

\* np.dot of two vectors of the same length
dot(a, b) == RSum([k \in DOMAIN a |-> RMul(a[k], b[k])], 0, Len0(a) - 1)

\* np.dot(M, v): matrix-vector product
matvec(M, v) == [r \in DOMAIN M |-> dot(M[r], v)]

zeros(n) == [k \in 0..(n - 1) |-> Zero]
zeros2(n) == [r \in 0..(n - 1) |-> zeros(n)]

\* Python's None, where a number or an array may stand
None == <<>>
\* self.L before any factorization has assigned it
Unset == [Lu |-> <<>>, D |-> <<>>]

\* a Python list or numpy array given as <<...>>: 0-based
Vec(s) == [k \in 0..(Len(s) - 1) |-> s[k + 1]]

R(n) == <<n, 1>>

----------------------------------------------------------------------------
(* Constructor arguments of the instances explored.                        *)
(* conn: bars (n1, n2); xpos: flat node coordinates; loads: the dict       *)
(* node -> (fx, fy) as <<node, fx, fy>> in iteration order; bcs: the dict  *)
(* node -> list of fixed indices as <<node, <<index, ...>>>> in iteration  *)
(* order.                                                                  *)

\* Two bars of length 5 from two supports to a loaded apex, two materials.
TwoBarArgs ==
    [conn |-> Vec(<< <<0, 2>>, <<1, 2>> >>),
     xpos |-> Vec(<<0, 0, 6, 0, 3, 4>>),
     loads |-> << <<2, R(0), R(-1)>> >>,
     bcs |-> << <<0, <<0, 1>>>>, <<1, <<0, 1>>>> >>,
     E |-> R(125), rho |-> Vec(<<R(1), R(2)>>), Avals |-> Vec(<<R(1), R(2)>>),
     m_fixed |-> R(10), use_mass_constraint |-> TRUE,
     x_lb |-> <<1, 10>>, epsilon |-> <<1, 4>>, sigma |-> R(10),
     no_bound |-> R(1000000)]

\* The same truss with the second support left free: under-constrained, and
\* the dict of fixed indices iterated in the other order.
FreeSupportArgs ==
    [TwoBarArgs EXCEPT !.bcs = << <<0, <<1, 0>>>> >>,
                       !.use_mass_constraint = FALSE,
                       !.x_lb = <<-1, 10>>]

\* One bar from (0,0) to (1,0), one material, node 0 fixed, node 1 fixed in
\* y and pulled in x; no area floor, no mass constraint.
OneBarArgs ==
    [conn |-> Vec(<< <<0, 1>> >>),
     xpos |-> Vec(<<0, 0, 1, 0>>),
     loads |-> << <<1, R(1), R(0)>> >>,
     bcs |-> << <<1, <<1>>>>, <<0, <<0, 1>>>> >>,
     E |-> R(1), rho |-> Vec(<<R(1)>>), Avals |-> Vec(<<R(1)>>),
     m_fixed |-> R(1), use_mass_constraint |-> FALSE,
     x_lb |-> Zero, epsilon |-> Zero, sigma |-> R(10),
     no_bound |-> R(1000000)]

Models == {TwoBarArgs, FreeSupportArgs, OneBarArgs}

----------------------------------------------------------------------------
(* State of one TrussAnalysis instance.                                    *)

VARIABLES
    model,      \* attributes set in __init__ and never assigned again
    A,          \* self.A: element areas
    K,          \* self.K: stiffness matrix
    Kp,         \* self.Kp: directional stiffness matrix
    f,          \* self.f: load vector
    u,          \* self.u: displacements
    phi,        \* self.phi
    L,          \* self.L: Cholesky factor, Unset until first assigned
    obj_scale,  \* self.obj_scale
    penalty,    \* self.penalty
    xinit,      \* self.xinit
    fevals, gevals, hevals,   \* evaluation counters
    solveX,     \* history: the x of the most recent solve that wrote u and L
    calls,      \* history: number of calls made on the instance
    last        \* the most recent call: [op, args, outcome, out]

vars == <<model, A, K, Kp, f, u, phi, L, obj_scale, penalty, xinit,
          fevals, gevals, hevals, solveX, calls, last>>

\* bar geometry as computed in every loop over self.conn
barLe(m, bar) ==
    LET xd == m.xpos[2 * bar[2]] - m.xpos[2 * bar[1]]
        yd == m.xpos[2 * bar[2] + 1] - m.xpos[2 * bar[1] + 1]
    IN  Sqrt(xd * xd + yd * yd)

\* self.gmass as filled in by the constructor's loop
gmassInit(args, nblock, nmats) ==
    [k \in 0..(nblock * Len0(args.conn) - 1) |->
        IF k % nblock = 0 THEN Zero
        ELSE RMul(args.rho[(k % nblock) - 1], R(barLe(args, args.conn[k \div nblock])))]

\* the attributes __init__ stores and no method assigns again
initModel(args) ==
    LET nmats == Len0(args.Avals)
        nblock == nmats + 1
    IN  [conn |-> args.conn, xpos |-> args.xpos, loads |-> args.loads,
         bcs |-> args.bcs, E |-> args.E, Avals |-> args.Avals, rho |-> args.rho,
         m_fixed |-> args.m_fixed, epsilon |-> args.epsilon,
         no_bound |-> args.no_bound, sigma |-> args.sigma,
         nmats |-> nmats, nblock |-> nblock, nelems |-> Len0(args.conn),
         nvars |-> Len0(args.xpos),
         use_mass_constraint |-> args.use_mass_constraint,
         ndv |-> nblock * Len0(args.conn),
         x_lb |-> RMax(args.x_lb, Zero),
         gmass |-> gmassInit(args, nblock, nmats)]

\* self.xinit after construction: 1/nmats in material slots, 0.5 in thickness slots
xinitInit(m) ==
    [k \in 0..(m.ndv - 1) |-> IF k % m.nblock = 0 THEN Half ELSE Rat(1, m.nmats)]

\* __init__
TrussAnalysis(args) ==
    /\ model = initModel(args)
    /\ A = zeros(model.nelems)
    /\ penalty = zeros(model.ndv)
    /\ xinit = xinitInit(model)
    /\ K = zeros2(model.nvars)
    /\ Kp = zeros2(model.nvars)
    /\ f = zeros(model.nvars)
    /\ u = zeros(model.nvars)
    /\ phi = zeros(model.nvars)
    /\ L = Unset
    /\ obj_scale = None
    /\ fevals = 0 /\ gevals = 0 /\ hevals = 0
    /\ solveX = None
    /\ calls = 0
    /\ last = [op |-> "__init__", args |-> <<>>, outcome |-> "returned", out |-> <<>>]

Init == \E args \in Models : TrussAnalysis(args)

----------------------------------------------------------------------------
(* Element kernel, assembler and linear solver.                            *)

\* setAreas(x, lb_factor): the value left in self.A
RECURSIVE areaSum(_, _, _, _, _)
areaSum(m, x, lb_factor, i, j) ==
    IF j < 0 THEN RMul(lb_factor, m.Avals[0])
    ELSE RAdd(areaSum(m, x, lb_factor, i, j - 1),
              RMul(m.Avals[j], RAdd(lb_factor, x[i * m.nblock + 1 + j])))

setAreas(m, x, lb_factor) ==
    [i \in 0..(Len0(m.conn) - 1) |-> areaSum(m, x, lb_factor, i, m.nmats - 1)]

\* the 4x4 array of direction-cosine products of a bar, times coef
elemMat(m, bar, coef) ==
    LET xd == m.xpos[2 * bar[2]] - m.xpos[2 * bar[1]]
        yd == m.xpos[2 * bar[2] + 1] - m.xpos[2 * bar[1] + 1]
        Le == Sqrt(xd * xd + yd * yd)
        C == Rat(xd, Le)
        S == Rat(yd, Le)
        CC == RMul(C, C)
        CS == RMul(C, S)
        SS == RMul(S, S)
        arr == Vec(<< Vec(<<CC, CS, RNeg(CC), RNeg(CS)>>),
                      Vec(<<CS, SS, RNeg(CS), RNeg(SS)>>),
                      Vec(<<RNeg(CC), RNeg(CS), CC, CS>>),
                      Vec(<<RNeg(CS), RNeg(SS), CS, SS>>) >>)
    IN  [i \in 0..3 |-> [j \in 0..3 |-> RMul(coef, arr[i][j])]]

\* Ke = (E*A_bar/Le)*array, as in assembleMat and getStrainEnergy
KeArea(m, bar, A_bar) ==
    elemMat(m, bar, RDiv(RMul(m.E, A_bar), R(barLe(m, bar))))

\* Ke = (E/Le)*array, as in evalObjConGradient and evalHvecProduct
KeUnit(m, bar) == elemMat(m, bar, RDiv(m.E, R(barLe(m, bar))))

\* elem_vars = [2*n1, 2*n1+1, 2*n2, 2*n2+1]
elem_vars(bar) == Vec(<<2 * bar[1], 2 * bar[1] + 1, 2 * bar[2], 2 * bar[2] + 1>>)

\* K[a, b] = v: the entry overwritten instead of added to
overwrite(old, v) == v

\* K[a, b] += v: the new value of the entry
accumulate(old, v) == RAdd(old, v)

\* the double loop "for i: for j: K[elem_vars[i], elem_vars[j]] += Ke[i, j]"
\* for one bar.  The four entries of elem_vars are distinct (n1 # n2), so
\* an entry (a, b) of K is touched by at most one pair (i, j).
scatterAdd(M, ev, Ke) ==
    [a \in DOMAIN M |-> [b \in DOMAIN M |->
        LET I == {i \in 0..3 : ev[i] = a}
            J == {j \in 0..3 : ev[j] = b}
        IN  IF I = {} \/ J = {} THEN M[a][b]
            ELSE accumulate(M[a][b], Ke[CHOOSE i \in I : TRUE][CHOOSE j \in J : TRUE])]]

\* the loop of assembleMat over the first nb bars, from the zeroed matrix
RECURSIVE assembleBars(_, _, _)
assembleBars(m, Ain, nb) ==
    IF nb = 0 THEN zeros2(m.nvars)
    ELSE LET bar == m.conn[nb - 1]
         IN  scatterAdd(assembleBars(m, Ain, nb - 1), elem_vars(bar),
                        KeArea(m, bar, Ain[nb - 1]))

\* assembleMat(A, K): the value left in K
assembleMat(m, Ain) == assembleBars(m, Ain, Len0(m.conn))

\* assembleLoadVec(f): the value left in f
RECURSIVE addLoads(_, _)
addLoads(m, n) ==
    IF n = 0 THEN zeros(m.nvars)
    ELSE LET ld == m.loads[n]
             g == addLoads(m, n - 1)
             g1 == [g EXCEPT ![2 * ld[1]] = RAdd(@, ld[2])]
         IN  [g1 EXCEPT ![2 * ld[1] + 1] = RAdd(@, ld[3])]

assembleLoadVec(m) == addLoads(m, Len(m.loads))

\* the loop body without "K[:, var] = 0.0"
fixDofRowOnly(Kf, var) ==
    [K |-> [Kf.K EXCEPT ![var] = [c \in DOMAIN @ |-> IF c = var THEN One ELSE Zero]],
     f |-> [Kf.f EXCEPT ![var] = Zero]]

\* the body of applyBCs' inner loop for var = 2*node + index
fixDof(Kf, var) ==
    LET K1 == [Kf.K EXCEPT ![var] = [c \in DOMAIN @ |-> Zero]]
        K2 == [r \in DOMAIN K1 |-> [K1[r] EXCEPT ![var] = Zero]]
        K3 == [K2 EXCEPT ![var][var] = One]
    IN  [K |-> K3, f |-> [Kf.f EXCEPT ![var] = Zero]]

\* "for index in uv_list" over the first n indices of a node
RECURSIVE fixNode(_, _, _, _)
fixNode(Kf, node, uv_list, n) ==
    IF n = 0 THEN Kf
    ELSE fixDof(fixNode(Kf, node, uv_list, n - 1), 2 * node + uv_list[n])

\* "for node in self.bcs" over the first n nodes of the dict
RECURSIVE fixNodes(_, _, _)
fixNodes(Kf, bcs, n) ==
    IF n = 0 THEN Kf
    ELSE fixNode(fixNodes(Kf, bcs, n - 1), bcs[n][1], bcs[n][2], Len(bcs[n][2]))

\* applyBCs(K, f): the values left in K and f
applyBCs(m, Kin, fin) == fixNodes([K |-> Kin, f |-> fin], m.bcs, Len(m.bcs))

\* linalg.cholesky(K, lower=True).  The factor L = Lu*sqrt(D) is held as
\* the unit lower-triangular Lu and the diagonal D of the pivots; the
\* factorization raises LinAlgError at the first pivot that is not
\* positive.  Only the lower triangle of K is read.
RECURSIVE pivSum(_, _, _, _, _)
pivSum(Lu, D, i, j, k) ==
    IF k < 0 THEN Zero
    ELSE RAdd(pivSum(Lu, D, i, j, k - 1), RMul(RMul(Lu[i][k], Lu[j][k]), D[k]))

\* column j of Lu below the diagonal, rows j+1..i, for the pivot d
RECURSIVE cholCol(_, _, _, _, _, _)
cholCol(Kin, Lu, D, j, d, i) ==
    IF i <= j THEN [Lu EXCEPT ![j][j] = One]
    ELSE [cholCol(Kin, Lu, D, j, d, i - 1) EXCEPT
             ![i][j] = RDiv(RSub(Kin[i][j], pivSum(Lu, D, i, j, j - 1)), d)]

RECURSIVE cholCols(_, _, _)
cholCols(Kin, j, acc) ==
    IF j = Len0(Kin) THEN acc
    ELSE LET d == RSub(Kin[j][j], pivSum(acc.Lu, acc.D, j, j, j - 1))
         IN  IF RLe(d, Zero) THEN [acc EXCEPT !.ok = FALSE]
             ELSE cholCols(Kin, j + 1,
                           [ok |-> TRUE,
                            Lu |-> cholCol(Kin, acc.Lu, acc.D, j, d, Len0(Kin) - 1),
                            D |-> [acc.D EXCEPT ![j] = d]])

cholesky(Kin) ==
    cholCols(Kin, 0, [ok |-> TRUE, Lu |-> zeros2(Len0(Kin)), D |-> zeros(Len0(Kin))])

\* sum of Lu[i][k]*y[k] for k in 0..n
RECURSIVE rowSum(_, _, _, _)
rowSum(Lu, y, i, n) ==
    IF n < 0 THEN Zero ELSE RAdd(rowSum(Lu, y, i, n - 1), RMul(Lu[i][n], y[n]))

\* sum of Lu[k][i]*w[k] for k in lo..(number of rows - 1)
RECURSIVE colSum(_, _, _, _)
colSum(Lu, w, i, lo) ==
    IF lo >= Len0(w) THEN Zero ELSE RAdd(colSum(Lu, w, i, lo + 1), RMul(Lu[lo][i], w[lo]))

RECURSIVE fwdSolve(_, _, _)
fwdSolve(Lu, b, i) ==
    IF i < 0 THEN b
    ELSE LET y == fwdSolve(Lu, b, i - 1)
         IN  [y EXCEPT ![i] = RSub(b[i], rowSum(Lu, y, i, i - 1))]

RECURSIVE scaleBy(_, _, _)
scaleBy(y, D, i) ==
    IF i < 0 THEN y ELSE [scaleBy(y, D, i - 1) EXCEPT ![i] = RDiv(y[i], D[i])]

RECURSIVE bwdSolve(_, _, _)
bwdSolve(Lu, z, i) ==
    IF i >= Len0(z) THEN z
    ELSE LET w == bwdSolve(Lu, z, i + 1)
         IN  [w EXCEPT ![i] = RSub(z[i], colSum(Lu, w, i, i + 1))]

\* the two solve_triangular calls (trans='N' then trans='T'), which
\* overwrite b in place: the value left in b
cholSolve(Lf, b) ==
    bwdSolve(Lf.Lu, scaleBy(fwdSolve(Lf.Lu, b, Len0(b) - 1), Lf.D, Len0(b) - 1), 0)

----------------------------------------------------------------------------
(* Arguments the callers pass.                                             *)

\* the design vector whose bar i holds the block bl[i] = <<t, x_1, .., x_nmats>>
xOf(m, bl) == [k \in 0..(m.ndv - 1) |-> bl[k \div m.nblock][(k % m.nblock) + 1]]

\* one material fully chosen / an even mix at half thickness / nothing
blockFull(m) == [j \in 1..m.nblock |-> IF j <= 2 THEN One ELSE Zero]
blockMix(m)  == [j \in 1..m.nblock |-> IF j = 1 THEN Half ELSE Rat(1, 2 * m.nmats)]
blockZero(m) == [j \in 1..m.nblock |-> Zero]

XSet(m) ==
    { xOf(m, [i \in 0..(m.nelems - 1) |-> blockZero(m)]),
      xOf(m, [i \in 0..(m.nelems - 1) |-> blockFull(m)]),
      xOf(m, [i \in 0..(m.nelems - 1) |-> IF i % 2 = 0 THEN blockMix(m) ELSE blockFull(m)]) }

\* directions px
PXSet(m) == { xOf(m, [i \in 0..(m.nelems - 1) |-> IF i % 2 = 0 THEN blockFull(m) ELSE blockMix(m)]) }

\* penalty weights, one per bar
GammaSet(m) == { [i \in 0..(m.nelems - 1) |-> R(g + i)] : g \in 1..MaxGamma }

Call(op, args, outcome, out) == [op |-> op, args |-> args, outcome |-> outcome, out |-> out]

\* the step is a call of op
IsCall(op) == calls' = calls + 1 /\ last'.op = op

----------------------------------------------------------------------------
(* Re-linearization and the bounds query.                                  *)

\* bound = 2e-3
bound == <<1, 500>>

\* the clamp with the margin left out: at 1.0 and at x_lb
clampInitNoMargin(m, x) ==
    [k \in 0..(m.ndv - 1) |->
        IF k % m.nblock = 0
        THEN IF RLt(One, x[k]) THEN One ELSE x[k]
        ELSE IF RLt(x[k], m.x_lb) THEN m.x_lb ELSE x[k]]

\* self.xinit after "self.xinit[:] = x[:]" and the loop that moves it inside
\* the bounds
clampInit(m, x) ==
    [k \in 0..(m.ndv - 1) |->
        IF k % m.nblock = 0
        THEN IF RLt(RSub(One, bound), x[k]) THEN RSub(One, bound) ELSE x[k]
        ELSE IF RLt(RSub(x[k], m.x_lb), bound) THEN RAdd(m.x_lb, bound) ELSE x[k]]

\* the penalty taken from the clamped self.xinit instead of the argument x
penaltyVecFromXinit(m, x, gamma) ==
    [k \in 0..(m.ndv - 1) |->
        IF k % m.nblock = 0
        THEN RMul(gamma[k \div m.nblock], RSub(One, clampInit(m, x)[k]))
        ELSE RMul(RNeg(gamma[k \div m.nblock]), clampInit(m, x)[k])]

\* self.penalty after the loop "Set the penalty parameters"
penaltyVec(m, x, gamma) ==
    [k \in 0..(m.ndv - 1) |->
        IF k % m.nblock = 0
        THEN RMul(gamma[k \div m.nblock], RSub(One, x[k]))
        ELSE RMul(RNeg(gamma[k \div m.nblock]), x[k])]

setNewInitPointPenalty(x, gamma) ==
    /\ calls < MaxCalls
    /\ calls' = calls + 1
    /\ xinit' = clampInit(model, x)
    /\ penalty' = penaltyVec(model, x, gamma)
    /\ last' = Call("setNewInitPointPenalty", [x |-> x, gamma |-> gamma], "returned", <<>>)
    /\ UNCHANGED <<model, A, K, Kp, f, u, phi, L, obj_scale, fevals, gevals, hevals, solveX>>

\* the arrays x, lb, ub as getVarsAndBounds leaves them
varsAndBounds(m, xi) ==
    [x |-> xi,
     lb |-> [k \in 0..(m.ndv - 1) |->
                IF k % m.nblock = 0 THEN RNeg(m.no_bound) ELSE RMax(Zero, m.x_lb)],
     ub |-> [k \in 0..(m.ndv - 1) |->
                IF k % m.nblock = 0 THEN One ELSE m.no_bound]]

\* getVarsAndBounds copying the wrong way: the constructor's initial point
\* is written back over self.xinit
getVarsAndBoundsReset ==
    /\ calls < MaxCalls
    /\ calls' = calls + 1
    /\ xinit' = xinitInit(model)
    /\ last' = Call("getVarsAndBounds", <<>>, "returned", varsAndBounds(model, xinit'))
    /\ UNCHANGED <<model, A, K, Kp, f, u, phi, L, obj_scale, penalty,
                   fevals, gevals, hevals, solveX>>

getVarsAndBounds ==
    /\ calls < MaxCalls
    /\ calls' = calls + 1
    /\ last' = Call("getVarsAndBounds", <<>>, "returned", varsAndBounds(model, xinit))
    /\ UNCHANGED <<model, A, K, Kp, f, u, phi, L, obj_scale, penalty, xinit,
                   fevals, gevals, hevals, solveX>>

----------------------------------------------------------------------------
(* Objective, gradient and Hessian-vector product.                         *)

\* the lines evalObjCon and getStrainEnergy share: areas with the epsilon
\* floor, assembly, load vector, boundary conditions
assembleSystem(m, Ain) == applyBCs(m, assembleMat(m, Ain), assembleLoadVec(m))

reassemble(x) ==
    /\ A' = setAreas(model, x, model.epsilon)
    /\ K' = assembleSystem(model, A').K
    /\ f' = assembleSystem(model, A').f

\* the value of self.L
factorOf(ch) == [Lu |-> ch.Lu, D |-> ch.D]

\* np.dot(self.gmass, x)
getMassOf(m, x) == dot(m.gmass, x)

\* the tuple evalObjCon returns, from the compliance u.f and the scale in use
objCon(m, x, compliance, scale, pen) ==
    LET obj0 == RAdd(RDiv(compliance, scale), dot(pen, x))
        mass == getMassOf(m, x)
        dev == RSub(RDiv(mass, m.m_fixed), One)
    IN  IF m.use_mass_constraint
        THEN [fail |-> 0, obj |-> obj0, con |-> <<RSub(One, RDiv(mass, m.m_fixed))>>]
        ELSE [fail |-> 0,
              obj |-> RAdd(obj0, RMul(RMul(Half, m.sigma), RMul(dev, dev))),
              con |-> <<>>]

\* the scale taken anew at every call, the "is None" test dropped
newObjScaleEveryCall(scale, compliance) == compliance

\* "if self.obj_scale is None: self.obj_scale = 1.0*obj"
newObjScale(scale, compliance) == IF scale = None THEN compliance ELSE scale

evalObjCon(x) ==
    /\ calls < MaxCalls
    /\ calls' = calls + 1
    /\ fevals' = fevals + 1
    /\ reassemble(x)
    /\ IF cholesky(K').ok
       THEN /\ L' = factorOf(cholesky(K'))
            /\ u' = cholSolve(L', f')
            /\ obj_scale' = newObjScale(obj_scale, dot(u', f'))
            /\ solveX' = x
            /\ last' = Call("evalObjCon", [x |-> x], "returned",
                            objCon(model, x, dot(u', f'), obj_scale', penalty))
       ELSE \* linalg.cholesky raises; self.u already holds the copy of f
            /\ u' = f'
            /\ last' = Call("evalObjCon", [x |-> x], "raised", "LinAlgError")
            /\ UNCHANGED <<L, obj_scale, solveX>>
    /\ UNCHANGED <<model, Kp, phi, penalty, xinit, gevals, hevals>>

\* sum over i, j of a[elem_vars[i]]*b[elem_vars[j]]*Ke[i, j]
quadForm(a, b, ev, Ke) ==
    LET row == [i \in 0..3 |->
                   RSum([j \in 0..3 |-> RMul(RMul(a[ev[i]], b[ev[j]]), Ke[i][j])], 0, 3)]
    IN  RSum(row, 0, 3)

\* per-bar value spread over the material slots: out[nblock*index+1+j] = val[index]*Avals[j]
spread(m, val) ==
    [k \in 0..(m.ndv - 1) |->
        IF k % m.nblock = 0 THEN Zero
        ELSE RMul(val[k \div m.nblock], m.Avals[(k % m.nblock) - 1])]

\* gobj and Acon as evalObjConGradient leaves them
objConGradient(m, x, uu, scale, pen) ==
    LET g == ([i \in 0..(m.nelems - 1) |->
                 RNeg(quadForm(uu, uu, elem_vars(m.conn[i]), KeUnit(m, m.conn[i])))])
        raw == spread(m, g)
        g1 == [k \in 0..(m.ndv - 1) |-> RAdd(RDiv(raw[k], scale), pen[k])]
        mass == getMassOf(m, x)
        coef == RMul(RDiv(m.sigma, m.m_fixed), RSub(RDiv(mass, m.m_fixed), One))
    IN  IF m.use_mass_constraint
        THEN [fail |-> 0, gobj |-> g1,
              Acon |-> <<[k \in 0..(m.ndv - 1) |-> RDiv(RNeg(m.gmass[k]), m.m_fixed)]>>]
        ELSE [fail |-> 0,
              gobj |-> [k \in 0..(m.ndv - 1) |-> RAdd(g1[k], RMul(coef, m.gmass[k]))],
              Acon |-> <<>>]

evalObjConGradient(x) ==
    /\ calls < MaxCalls
    /\ calls' = calls + 1
    /\ gevals' = gevals + 1
    /\ A' = setAreas(model, x, model.epsilon)
    /\ last' = IF obj_scale = None
               THEN \* "gobj /= self.obj_scale" with None raises
                    Call("evalObjConGradient", [x |-> x], "raised", "TypeError")
               ELSE Call("evalObjConGradient", [x |-> x], "returned",
                         objConGradient(model, x, u, obj_scale, penalty))
    /\ UNCHANGED <<model, K, Kp, f, u, phi, L, obj_scale, penalty, xinit,
                   fevals, hevals, solveX>>

\* hvec as evalHvecProduct leaves it, from the solved phi
hvecProduct(m, px, ph, uu, scale) ==
    LET h == ([i \in 0..(m.nelems - 1) |->
                 RMul(Two, quadForm(ph, uu, elem_vars(m.conn[i]), KeUnit(m, m.conn[i])))])
        raw == spread(m, h)
        h1 == [k \in 0..(m.ndv - 1) |-> RDiv(raw[k], scale)]
        curv == RDiv(RMul(m.sigma, dot(m.gmass, px)), RMul(m.m_fixed, m.m_fixed))
    IN  IF m.use_mass_constraint THEN h1
        ELSE [k \in 0..(m.ndv - 1) |-> RAdd(h1[k], RMul(m.gmass[k], curv))]

\* Kp and phi after assembleMat(A, Kp), np.dot(Kp, u, out=phi), applyBCs(Kp, phi)
hvecSystem(m, Kp1, uu) == applyBCs(m, Kp1, matvec(Kp1, uu))

\* the multipliers z and zw are not read by the code
evalHvecProduct(x, px) ==
    /\ calls < MaxCalls
    /\ calls' = calls + 1
    /\ hevals' = hevals + 1
    /\ A' = setAreas(model, px, Zero)
    /\ Kp' = hvecSystem(model, assembleMat(model, A'), u).K
    /\ IF L = Unset
       THEN \* self.L was never assigned
            /\ phi' = hvecSystem(model, assembleMat(model, A'), u).f
            /\ last' = Call("evalHvecProduct", [x |-> x, px |-> px], "raised", "AttributeError")
       ELSE /\ phi' = cholSolve(L, hvecSystem(model, assembleMat(model, A'), u).f)
            /\ last' = IF obj_scale = None
                       THEN \* "hvec /= self.obj_scale" with None raises
                            Call("evalHvecProduct", [x |-> x, px |-> px], "raised", "TypeError")
                       ELSE Call("evalHvecProduct", [x |-> x, px |-> px], "returned",
                                 [fail |-> 0, hvec |-> hvecProduct(model, px, phi', u, obj_scale)])
    /\ UNCHANGED <<model, K, f, u, L, obj_scale, penalty, xinit, fevals, gevals, solveX>>

----------------------------------------------------------------------------
(* Queries, diagram export, and direct calls of the assembler.             *)

\* getDiscreteInfeas(x): the array d
discreteInfeas(m, x) ==
    [i \in 0..(m.nelems - 1) |->
        LET tnum == m.nblock * i
            t1 == RSub(x[tnum], One)
        IN  RSub(RSub(One, RMul(t1, t1)),
                 RSum([k \in DOMAIN x |-> RMul(x[k], x[k])], tnum + 1, tnum + m.nblock - 1))]

getDiscreteInfeas(x) ==
    /\ calls < MaxCalls
    /\ calls' = calls + 1
    /\ last' = Call("getDiscreteInfeas", [x |-> x], "returned", discreteInfeas(model, x))
    /\ UNCHANGED <<model, A, K, Kp, f, u, phi, L, obj_scale, penalty, xinit,
                   fevals, gevals, hevals, solveX>>

getMass(x) ==
    /\ calls < MaxCalls
    /\ calls' = calls + 1
    /\ last' = Call("getMass", [x |-> x], "returned", getMassOf(model, x))
    /\ UNCHANGED <<model, A, K, Kp, f, u, phi, L, obj_scale, penalty, xinit,
                   fevals, gevals, hevals, solveX>>

\* a direct call setAreas(x, lb_factor)
setAreasCall(x, lb_factor) ==
    /\ calls < MaxCalls
    /\ calls' = calls + 1
    /\ A' = setAreas(model, x, lb_factor)
    /\ last' = Call("setAreas", [x |-> x, lb_factor |-> lb_factor], "returned", <<>>)
    /\ UNCHANGED <<model, K, Kp, f, u, phi, L, obj_scale, penalty, xinit,
                   fevals, gevals, hevals, solveX>>

\* the array Ue of getStrainEnergy
strainEnergy(m, Ain, uu) ==
    [i \in 0..(m.nelems - 1) |->
        RMul(Half, quadForm(uu, uu, elem_vars(m.conn[i]), KeArea(m, m.conn[i], Ain[i])))]

\* the writes of getStrainEnergy(x); the array Ue is strainEnergy(model, A', u')
strainEnergyRun(x) ==
    /\ reassemble(x)
    /\ IF cholesky(K').ok
       THEN /\ L' = factorOf(cholesky(K'))
            /\ u' = cholSolve(L', f')
            /\ solveX' = x
       ELSE \* linalg.cholesky raises; self.u already holds the copy of f
            /\ u' = f'
            /\ UNCHANGED <<L, solveX>>

getStrainEnergy(x) ==
    /\ calls < MaxCalls
    /\ calls' = calls + 1
    /\ strainEnergyRun(x)
    /\ last' = IF cholesky(K').ok
               THEN Call("getStrainEnergy", [x |-> x], "returned", strainEnergy(model, A', u'))
               ELSE Call("getStrainEnergy", [x |-> x], "raised", "LinAlgError")
    /\ UNCHANGED <<model, Kp, phi, obj_scale, penalty, xinit, fevals, gevals, hevals>>

\* min(self.Avals), max(gamma)
RECURSIVE minOf(_, _)
minOf(v, n) == IF n = 0 THEN v[0] ELSE LET r == minOf(v, n - 1) IN IF RLt(v[n], r) THEN v[n] ELSE r
RECURSIVE maxOf(_, _)
maxOf(v, n) == IF n = 0 THEN v[0] ELSE RMax(maxOf(v, n - 1), v[n])

\* the \draw commands of the bars: one entry <<bar, material, line width,
\* opacity>> for every material shown, in the order written
RECURSIVE drawBars(_, _, _)
drawBars(m, x, n) ==
    IF n = 0 THEN <<>>
    ELSE LET i == (n - 1) \div m.nmats
             j == (n - 1) % m.nmats
             xj == x[m.nblock * i + 1 + j]
             Amin == minOf(m.Avals, m.nmats - 1)
         IN  IF RLe(m.epsilon, x[m.nblock * i]) /\ RLt(m.epsilon, xj)
             THEN Append(drawBars(m, x, n - 1),
                         <<i, j, RDiv(RMul(Two, m.Avals[j]), Amin), xj>>)
             ELSE drawBars(m, x, n - 1)

\* the \draw commands of the overlay: <<bar, opacity>> per bar
drawOverlay(m, gamma) ==
    [i \in 1..m.nelems |-> <<i - 1, RDiv(gamma[i - 1], maxOf(gamma, m.nelems - 1))>>]

\* printTruss(x, filename, gamma); gamma = None leaves the overlay out.
\* The text written to the file is the outcome of the call.
printTruss(x, gamma) ==
    /\ calls < MaxCalls
    /\ calls' = calls + 1
    /\ IF gamma = None
       THEN /\ last' = Call("printTruss", [x |-> x, gamma |-> gamma], "returned",
                            drawBars(model, x, model.nelems * model.nmats))
            /\ UNCHANGED <<A, K, f, u, L, solveX>>
       ELSE \* d = self.getDiscreteInfeas(x); U = self.getStrainEnergy(x)
            /\ strainEnergyRun(x)
            /\ last' = IF cholesky(K').ok
                       THEN Call("printTruss", [x |-> x, gamma |-> gamma], "returned",
                                 drawBars(model, x, model.nelems * model.nmats)
                                     \o drawOverlay(model, gamma))
                       ELSE Call("printTruss", [x |-> x, gamma |-> gamma],
                                 "raised", "LinAlgError")
    /\ UNCHANGED <<model, Kp, phi, obj_scale, penalty, xinit, fevals, gevals, hevals>>

\* a direct call assembleMat(Ain, self.K)
assembleMatCall(Ain) ==
    /\ calls < MaxCalls
    /\ calls' = calls + 1
    /\ K' = assembleMat(model, Ain)
    /\ last' = Call("assembleMat", [A |-> Ain], "returned", <<>>)
    /\ UNCHANGED <<model, A, Kp, f, u, phi, L, obj_scale, penalty, xinit,
                   fevals, gevals, hevals, solveX>>

\* a direct call assembleLoadVec(self.f)
assembleLoadVecCall ==
    /\ calls < MaxCalls
    /\ calls' = calls + 1
    /\ f' = assembleLoadVec(model)
    /\ last' = Call("assembleLoadVec", <<>>, "returned", <<>>)
    /\ UNCHANGED <<model, A, K, Kp, u, phi, L, obj_scale, penalty, xinit,
                   fevals, gevals, hevals, solveX>>

\* a direct call applyBCs(self.K, self.f)
applyBCsCall ==
    /\ calls < MaxCalls
    /\ calls' = calls + 1
    /\ K' = applyBCs(model, K, f).K
    /\ f' = applyBCs(model, K, f).f
    /\ last' = Call("applyBCs", <<>>, "returned", <<>>)
    /\ UNCHANGED <<model, A, Kp, u, phi, L, obj_scale, penalty, xinit,
                   fevals, gevals, hevals, solveX>>

----------------------------------------------------------------------------
(* Sparse constraint block.                                                *)

\* 2.0*v[::nblock] - np.sum(v.reshape(-1, nblock), axis=1)
sparseForm(m, v) ==
    [i \in 0..(m.nelems - 1) |->
        RSub(RMul(Two, v[i * m.nblock]), RSum(v, i * m.nblock, i * m.nblock + m.nblock - 1))]

\* evalSparseCon(x, con): the value left in con
evalSparseConOf(m, x) == sparseForm(m, x)

\* addSparseJacobian(alpha, x, px, con): the value left in con
addSparseJacobianOf(m, alpha, x, px, con) ==
    [i \in 0..(m.nelems - 1) |-> RAdd(con[i], RMul(alpha, sparseForm(m, px)[i]))]

\* the transpose product with "+=" in the material slots as well
addSparseJacobianTransposeAllAdded(m, alpha, x, pz, out) ==
    [k \in 0..(m.ndv - 1) |-> RAdd(out[k], RMul(alpha, pz[k \div m.nblock]))]

\* addSparseJacobianTranspose(alpha, x, pz, out): the value left in out
addSparseJacobianTransposeOf(m, alpha, x, pz, out) ==
    [k \in 0..(m.ndv - 1) |->
        IF k % m.nblock = 0
        THEN RAdd(out[k], RMul(alpha, pz[k \div m.nblock]))
        ELSE RSub(out[k], RMul(alpha, pz[k \div m.nblock]))]

\* addSparseInnerProduct(alpha, x, c, A): the value left in the argument A
addSparseInnerProductOf(m, alpha, x, c, Aarg) ==
    [i \in 0..(m.nelems - 1) |->
        RAdd(Aarg[i], RMul(alpha, RSum(c, i * m.nblock, i * m.nblock + m.nblock - 1)))]

\* a call of one of the four, which touches no attribute of the instance
sparseCall(op, args, out) ==
    /\ calls < MaxCalls
    /\ calls' = calls + 1
    /\ last' = Call(op, args, "returned", out)
    /\ UNCHANGED <<model, A, K, Kp, f, u, phi, L, obj_scale, penalty, xinit,
                   fevals, gevals, hevals, solveX>>

evalSparseCon(x) ==
    sparseCall("evalSparseCon", [x |-> x], evalSparseConOf(model, x))

addSparseJacobian(alpha, x, px, con) ==
    sparseCall("addSparseJacobian", [alpha |-> alpha, x |-> x, px |-> px, con |-> con],
               addSparseJacobianOf(model, alpha, x, px, con))

addSparseJacobianTranspose(alpha, x, pz, out) ==
    sparseCall("addSparseJacobianTranspose", [alpha |-> alpha, x |-> x, pz |-> pz, out |-> out],
               addSparseJacobianTransposeOf(model, alpha, x, pz, out))

addSparseInnerProduct(alpha, x, c, Aarg) ==
    sparseCall("addSparseInnerProduct", [alpha |-> alpha, x |-> x, c |-> c, A |-> Aarg],
               addSparseInnerProductOf(model, alpha, x, c, Aarg))

----------------------------------------------------------------------------
(* The instance under any sequence of calls.                               *)

Next ==
    \/ \E x \in XSet(model) : evalObjCon(x)
    \/ \E x \in XSet(model) : evalObjConGradient(x)
    \/ \E x \in XSet(model), px \in PXSet(model) : evalHvecProduct(x, px)
    \/ \E x \in XSet(model), gamma \in GammaSet(model) : setNewInitPointPenalty(x, gamma)
    \/ getVarsAndBounds
    \/ \E x \in XSet(model) : getMass(x)
    \/ \E x \in XSet(model) : getDiscreteInfeas(x)
    \/ \E x \in XSet(model) : getStrainEnergy(x)
    \/ \E x \in XSet(model) : setAreasCall(x, Zero)
    \/ \E x \in XSet(model), gamma \in GammaSet(model) \cup {None} : printTruss(x, gamma)
    \/ \E x \in XSet(model) : evalSparseCon(x)
    \/ \E px \in PXSet(model) :
          addSparseJacobian(One, px, px, zeros(model.nelems))
    \/ \E px \in PXSet(model), gamma \in GammaSet(model) :
          addSparseJacobianTranspose(One, px, gamma, zeros(model.ndv))
    \/ \E px \in PXSet(model) :
          addSparseInnerProduct(One, px, px, zeros(model.nelems))
    \/ assembleMatCall(A)
    \/ assembleLoadVecCall
    \/ applyBCsCall

Spec == Init /\ [][Next]_vars

----------------------------------------------------------------------------
(* Re-linearization at the margins (SpecPenalty).                          *)

\* Two bars between the same two nodes with one material, and one bar with
\* two materials, for lower bounds x_lb above, at and below zero.
MarginModels ==
    { [OneBarArgs EXCEPT !.conn = Vec(<< <<0, 1>>, <<1, 0>> >>), !.x_lb = lb] :
          lb \in {Zero, <<1, 10>>} }
    \cup { [OneBarArgs EXCEPT !.Avals = Vec(<<R(1), R(2)>>), !.rho = Vec(<<R(1), R(2)>>),
                              !.x_lb = lb] : lb \in {<<1, 10>>, <<-1, 10>>} }

\* distance of the inputs from the margin: 1e-3
MarginStep == <<1, 1000>>

\* thickness values below, at and above 1-bound
ThickSet == { RSub(RSub(One, bound), MarginStep), RSub(One, bound),
              RAdd(RSub(One, bound), MarginStep) }

\* material values inside the margin, at x_lb+bound and beyond it
MatSet(m) == { RSub(RAdd(m.x_lb, bound), MarginStep), RAdd(m.x_lb, bound),
               RAdd(RAdd(m.x_lb, bound), MarginStep) }

MarginXSet(m) ==
    { x \in [0..(m.ndv - 1) -> ThickSet \cup MatSet(m)] :
         \A k \in 0..(m.ndv - 1) :
             IF k % m.nblock = 0 THEN x[k] \in ThickSet ELSE x[k] \in MatSet(m) }

InitPenalty == \E args \in MarginModels : TrussAnalysis(args)

NextPenalty ==
    \/ \E x \in MarginXSet(model), gamma \in GammaSet(model) : setNewInitPointPenalty(x, gamma)
    \/ getVarsAndBounds

SpecPenalty == InitPenalty /\ [][NextPenalty]_vars

\* C5: after setNewInitPointPenalty(x, gamma), with bound = 2e-3, a
\* thickness entry of xinit is 1-bound where x exceeds 1-bound and x
\* otherwise, a material entry is x_lb+bound where x - x_lb < bound and x
\* otherwise; so thickness entries are <= 1-bound and material entries are
\* >= x_lb+bound.
C5_XinitClampedAtMargin ==
    last.op = "setNewInitPointPenalty" =>
        \A k \in 0..(model.ndv - 1) :
            IF k % model.nblock = 0
            THEN /\ xinit[k] = IF RLt(Rat(998, 1000), last.args.x[k])
                               THEN Rat(998, 1000) ELSE last.args.x[k]
                 /\ RLe(xinit[k], Rat(998, 1000))
            ELSE /\ xinit[k] = IF RLt(RSub(last.args.x[k], model.x_lb), Rat(2, 1000))
                               THEN RAdd(model.x_lb, Rat(2, 1000)) ELSE last.args.x[k]
                 /\ RLe(RAdd(model.x_lb, Rat(2, 1000)), xinit[k])

\* a call given one thickness exactly at 1-bound, one material fraction
\* exactly at x_lb+bound, and an entry that the clamp moved
C5_InputAtAndOutsideMargin ==
    /\ last.op = "setNewInitPointPenalty"
    /\ \E k \in 0..(model.ndv - 1) :
           k % model.nblock = 0 /\ last.args.x[k] = Rat(998, 1000)
    /\ \E k \in 0..(model.ndv - 1) :
           k % model.nblock # 0 /\ last.args.x[k] = RAdd(model.x_lb, Rat(2, 1000))
    /\ \E k \in 0..(model.ndv - 1) : xinit[k] # last.args.x[k]

\* C6 (as the code has it): after setNewInitPointPenalty(x, gamma) the
\* penalty is computed from the x passed in, not from the clamped xinit:
\* penalty[thickness slot of i] = gamma[i]*(1 - x[slot]) and
\* penalty[material slot j of i] = -gamma[i]*x[slot].
C6_PenaltyFromArgument ==
    last.op = "setNewInitPointPenalty" =>
        \A k \in 0..(model.ndv - 1) :
            penalty[k] = IF k % model.nblock = 0
                         THEN RMul(last.args.gamma[k \div model.nblock],
                                   RSub(One, last.args.x[k]))
                         ELSE RNeg(RMul(last.args.gamma[k \div model.nblock],
                                        last.args.x[k]))

\* C6 (as stated): after setNewInitPointPenalty(x, gamma) the penalty is
\* computed from the clamped reference point: gamma[i]*(1 - xinit[slot])
\* for a thickness slot and -gamma[i]*xinit[slot] for a material slot.
C6_PenaltyFromClampedXinit ==
    last.op = "setNewInitPointPenalty" =>
        \A k \in 0..(model.ndv - 1) :
            penalty[k] = IF k % model.nblock = 0
                         THEN RMul(last.args.gamma[k \div model.nblock],
                                   RSub(One, xinit[k]))
                         ELSE RNeg(RMul(last.args.gamma[k \div model.nblock], xinit[k]))

\* a re-linearization whose input lay outside the margin in a thickness
\* slot and in a material slot
C6_InputOutsideMargin ==
    /\ last.op = "setNewInitPointPenalty"
    /\ \E k \in 0..(model.ndv - 1) : k % model.nblock = 0 /\ xinit[k] # last.args.x[k]
    /\ \E k \in 0..(model.ndv - 1) : k % model.nblock # 0 /\ xinit[k] # last.args.x[k]

----------------------------------------------------------------------------
(* The sparse constraint block on its own (SpecSparse).                    *)

\* Two bars with one material (nblock = 2) and one bar with two (nblock = 3).
SparseModels ==
    { [OneBarArgs EXCEPT !.conn = Vec(<< <<0, 1>>, <<1, 0>> >>)],
      [OneBarArgs EXCEPT !.Avals = Vec(<<R(1), R(2)>>), !.rho = Vec(<<R(1), R(2)>>)] }

\* the vectors of length n with entries in -1..MaxCoef
CoefVecs(n) == [0..(n - 1) -> {R(c) : c \in -1..MaxCoef}]

InitSparse == \E args \in SparseModels : TrussAnalysis(args)

NextSparse ==
    \/ \E x \in XSet(model) : evalSparseCon(x)
    \/ \E x \in PXSet(model), px \in CoefVecs(model.ndv) :
          addSparseJacobian(One, x, px, zeros(model.nelems))
    \/ \E x \in PXSet(model), pz \in CoefVecs(model.nelems) :
          addSparseJacobianTranspose(One, x, pz, zeros(model.ndv))
    \/ \E x \in PXSet(model), c \in XSet(model) :
          addSparseInnerProduct(One, x, c, zeros(model.nelems))

SpecSparse == InitSparse /\ [][NextSparse]_vars

\* C8: with Jq left by addSparseJacobian(1, x, px, .) in a zero vector and
\* JTp left by addSparseJacobianTranspose(1, x, pz, .) in a zero vector,
\* pz.(Jq) = (JTp).px for every pz and px; and evalSparseCon(x) leaves, per
\* bar, c_i = t_i - (sum of the material fractions of bar i).
C8_SparseJacobianAdjoint ==
    /\ (last.op = "addSparseJacobian" /\ last.args.alpha = One
            /\ last.args.con = zeros(model.nelems)) =>
           \A pz \in CoefVecs(model.nelems) :
               dot(pz, last.out) =
                   dot(addSparseJacobianTransposeOf(model, One, last.args.x, pz,
                                                    zeros(model.ndv)),
                       last.args.px)
    /\ (last.op = "addSparseJacobianTranspose" /\ last.args.alpha = One
            /\ last.args.out = zeros(model.ndv)) =>
           \A px \in CoefVecs(model.ndv) :
               dot(last.args.pz,
                   addSparseJacobianOf(model, One, last.args.x, px, zeros(model.nelems)))
                   = dot(last.out, px)
    /\ last.op = "evalSparseCon" =>
           \A i \in 0..(model.nelems - 1) :
               last.out[i] =
                   RSub(last.args.x[i * model.nblock],
                        RSum(last.args.x, i * model.nblock + 1,
                             i * model.nblock + model.nmats))

\* a transpose product of a pz with entries of both signs
C8_TransposeOfMixedDirection ==
    /\ last.op = "addSparseJacobianTranspose"
    /\ \E i \in 0..(model.nelems - 1) : last.args.pz[i] # Zero
    /\ \E k \in 0..(model.ndv - 1) : last.out[k][1] < 0
    /\ \E k \in 0..(model.ndv - 1) : last.out[k][1] > 0

----------------------------------------------------------------------------
(* The assembler and the boundary conditions on their own (SpecAssemble).  *)

\* Two inclined bars between the same two nodes; the far node is held in y
\* only, and both nodes carry a load.
ParallelArgs ==
    [OneBarArgs EXCEPT !.conn = Vec(<< <<0, 1>>, <<1, 0>> >>),
                       !.xpos = Vec(<<0, 0, 3, 4>>),
                       !.loads = << <<1, R(1), R(2)>>, <<0, R(3), R(-1)>> >>,
                       !.bcs = << <<1, <<1>>>>, <<0, <<0, 1>>>> >>,
                       !.E = R(125)]

\* The two-bar truss closed by a third bar between the supports; a pin at
\* node 0, a roller at node 1, loads on the apex and on the pin.
TriangleArgs ==
    [TwoBarArgs EXCEPT !.conn = Vec(<< <<0, 2>>, <<1, 2>>, <<0, 1>> >>),
                       !.loads = << <<2, R(0), R(-1)>>, <<0, R(3), R(1)>> >>,
                       !.bcs = << <<0, <<0, 1>>>>, <<1, <<1>>>> >>]

AssembleModels == {TwoBarArgs, ParallelArgs, TriangleArgs}

\* one area per bar
AreaSet(m) == [0..(m.nelems - 1) -> {R(a) : a \in 0..MaxArea}]

InitAssemble == \E args \in AssembleModels : TrussAnalysis(args)

NextAssemble ==
    \/ \E Ain \in AreaSet(model) : assembleMatCall(Ain)
    \/ assembleLoadVecCall
    \/ applyBCsCall

SpecAssemble == InitAssemble /\ [][NextAssemble]_vars

\* what bar n adds to K[a, b]
contribution(m, Ain, n, a, b) ==
    LET ev == elem_vars(m.conn[n])
        I == {i \in 0..3 : ev[i] = a}
        J == {j \in 0..3 : ev[j] = b}
    IN  IF I = {} \/ J = {} THEN Zero
        ELSE KeArea(m, m.conn[n], Ain[n])[CHOOSE i \in I : TRUE][CHOOSE j \in J : TRUE]

\* C9: K is symmetric after assembleMat and stays symmetric under applyBCs,
\* and after assembleMat(A, K) every entry K[a, b] is the sum over all bars
\* of what the bar contributes to (a, b).
C9_AssembledMatrixSymmetricSum ==
    /\ \A a \in DOMAIN K : \A b \in DOMAIN K : K[a][b] = K[b][a]
    /\ last.op = "assembleMat" =>
           \A a \in DOMAIN K : \A b \in DOMAIN K :
               K[a][b] = RSum([n \in 0..(model.nelems - 1) |->
                                  contribution(model, last.args.A, n, a, b)],
                              0, model.nelems - 1)

\* an assembled entry off the diagonal to which two bars both contribute
C9_TwoBarsOnOneEntry ==
    /\ last.op = "assembleMat"
    /\ \E a \in DOMAIN K : \E b \in DOMAIN K :
           /\ a # b
           /\ \E n1 \in 0..(model.nelems - 1) : \E n2 \in 0..(model.nelems - 1) :
                  /\ n1 # n2
                  /\ contribution(model, last.args.A, n1, a, b) # Zero
                  /\ contribution(model, last.args.A, n2, a, b) # Zero

\* the DOFs var = 2*node + index of self.bcs
FixedVars(m) ==
    UNION { { 2 * m.bcs[n][1] + m.bcs[n][2][i] : i \in 1..Len(m.bcs[n][2]) } :
                n \in 1..Len(m.bcs) }

\* the dict self.bcs iterated in another node order, index lists reversed or not
BcsOrders(bcs) ==
    { [n \in 1..Len(bcs) |->
          <<bcs[p[n]][1],
            [i \in 1..Len(bcs[p[n]][2]) |->
                bcs[p[n]][2][IF rev[n] THEN Len(bcs[p[n]][2]) + 1 - i ELSE i]]>>] :
          p \in { q \in [1..Len(bcs) -> 1..Len(bcs)] :
                      \A i, j \in 1..Len(bcs) : q[i] = q[j] => i = j },
          rev \in [1..Len(bcs) -> BOOLEAN] }

\* C10: after applyBCs(K, f) every fixed var has row var and column var of K
\* zero except K[var, var] = 1 and f[var] = 0; entries in no fixed row or
\* column are unchanged; any processing order of the fixed DOFs gives the
\* same K and f; and a second applyBCs changes nothing.
C10_ApplyBCsCharacterised ==
    [][IsCall("applyBCs") =>
          /\ \A var \in FixedVars(model) :
                 /\ \A c \in DOMAIN K : K'[var][c] = (IF c = var THEN One ELSE Zero)
                 /\ \A r \in DOMAIN K : K'[r][var] = (IF r = var THEN One ELSE Zero)
                 /\ f'[var] = Zero
          /\ \A a \in DOMAIN K \ FixedVars(model) :
                 /\ f'[a] = f[a]
                 /\ \A b \in DOMAIN K \ FixedVars(model) : K'[a][b] = K[a][b]
          /\ \A o \in BcsOrders(model.bcs) :
                 applyBCs([model EXCEPT !.bcs = o], K, f) = [K |-> K', f |-> f']
          /\ applyBCs(model, K', f') = [K |-> K', f |-> f']]_vars

\* boundary conditions applied to an assembled K: a free entry kept its
\* non-zero value where fixed and free DOFs are coupled by a bar
C10_BCsOnAssembledMatrix ==
    /\ last.op = "applyBCs"
    /\ \E a \in DOMAIN K \ FixedVars(model) : K[a][a] # Zero
    /\ Cardinality(FixedVars(model)) >= 3

----------------------------------------------------------------------------
(* Properties of the instance under any sequence of calls (Spec).          *)

\* C1: a call evalHvecProduct(x, ., ., px, hvec) whose x is not the x of the
\* most recent solve that wrote u and L (or that no solve precedes) does not
\* return a Hessian-vector result with the success code: it is reported.
C1_StaleHvecProductReported ==
    (last.op = "evalHvecProduct" /\ solveX # last.args.x)
        => ~(last.outcome = "returned" /\ last.out.fail = 0)

\* a Hessian-vector product returned with fail = 0 although the most recent
\* solve was at another x
C1_StaleHvecProductReturned ==
    /\ last.op = "evalHvecProduct"
    /\ solveX # None /\ solveX # last.args.x
    /\ last.outcome = "returned" /\ last.out.fail = 0

\* C2: printTruss(x, filename, gamma), for gamma given or None, leaves A, K,
\* f, u, L, obj_scale, penalty, xinit and the evaluation counters as they
\* were before the call.
C2_PrintTrussLeavesStateUnchanged ==
    [][IsCall("printTruss") =>
          UNCHANGED <<A, K, f, u, L, obj_scale, penalty, xinit, fevals, gevals, hevals>>]_vars

\* printTruss with an overlay returned after an evalObjCon at another x: u
\* and f are those of the x printTruss was given, their compliance is no
\* longer the one evalObjCon stored as obj_scale
C2_PrintTrussSolvedAgain ==
    /\ last.op = "printTruss" /\ last.args.gamma # None /\ last.outcome = "returned"
    /\ solveX = last.args.x
    /\ fevals = 1 /\ obj_scale # None /\ obj_scale # dot(u, f)

\* C3: penalty and xinit change only in setNewInitPointPenalty; every other
\* operation leaves both as they were, in any call sequence.
C3_PenaltyAndXinitChangeOnlyInSetNewInitPoint ==
    [][(penalty' # penalty \/ xinit' # xinit) => IsCall("setNewInitPointPenalty")]_vars

\* another operation has run on an instance whose penalty and reference
\* point a re-linearization had set
C3_OtherCallAfterNewInitPoint ==
    /\ last.op \in {"evalObjCon", "getVarsAndBounds", "printTruss", "getStrainEnergy"}
    /\ penalty # zeros(model.ndv)
    /\ xinit # xinitInit(model)

\* C4: obj_scale is unset until an evalObjCon call returns, that call sets
\* it to the compliance u.f it computed, and no later operation changes it:
\* a later evalObjCon at any x divides its compliance by that first value.
C4_ObjScaleSetOnceByFirstEvalObjCon ==
    [][/\ obj_scale # None => obj_scale' = obj_scale
       /\ (obj_scale = None /\ obj_scale' # None) =>
              (IsCall("evalObjCon") /\ obj_scale' = dot(u', f'))
       /\ (IsCall("evalObjCon") /\ last'.outcome = "returned") =>
              /\ obj_scale' # None
              /\ last'.out.obj =
                     objCon(model, last'.args.x, dot(u', f'),
                            IF obj_scale = None THEN dot(u', f') ELSE obj_scale,
                            penalty).obj]_vars

\* a second evalObjCon returned whose own compliance is not the scale in use
C4_LaterEvalKeepsFirstScale ==
    /\ last.op = "evalObjCon" /\ last.outcome = "returned"
    /\ fevals = 2
    /\ obj_scale # None /\ obj_scale # dot(u, f)

\* C7: when K is not positive definite after the boundary conditions,
\* evalObjCon returns to its caller with a non-zero fail code.
C7_NotPositiveDefiniteReturnsFailCode ==
    (last.op = "evalObjCon" /\ ~cholesky(K).ok)
        => (last.outcome = "returned" /\ last.out.fail # 0)

\* evalObjCon on a K that is not positive definite: the exception of
\* linalg.cholesky leaves the call, no tuple is returned
C7_NotPositiveDefiniteRaised ==
    /\ last.op = "evalObjCon" /\ ~cholesky(K).ok
    /\ last.outcome = "raised" /\ last.out = "LinAlgError"

\* what evalObjCon(x) leaves in f, u and L when its factorization succeeds:
\* the system assembled at x and its solution
solvedAt(m, x) ==
    [ok |-> cholesky(assembleSystem(m, setAreas(m, x, m.epsilon)).K).ok,
     f |-> assembleSystem(m, setAreas(m, x, m.epsilon)).f,
     L |-> factorOf(cholesky(assembleSystem(m, setAreas(m, x, m.epsilon)).K)),
     u |-> cholSolve(factorOf(cholesky(assembleSystem(m, setAreas(m, x, m.epsilon)).K)),
                     assembleSystem(m, setAreas(m, x, m.epsilon)).f)]

\* what evalHvecProduct(x, ., ., px, hvec) returns on an instance whose u
\* and L are uu and Lf
hvecFrom(m, px, uu, Lf, scale) ==
    hvecProduct(m, px,
                cholSolve(Lf, hvecSystem(m, assembleMat(m, setAreas(m, px, Zero)), uu).f),
                uu, scale)

\* C11: the output of evalObjCon, evalObjConGradient and evalHvecProduct is
\* a function of the x passed in and the stored xinit, penalty and
\* obj_scale only.  An instance with obj_scale set, and the same instance
\* with one more evalObjCon(x) called just before (which changes none of
\* xinit, penalty, obj_scale), agree on the four values: so the output
\* returned equals the one computed from the u and L solved at x.
C11_OutputFunctionOfStoredValues ==
    (last.outcome = "returned" /\ obj_scale # None
         /\ last.op \in {"evalObjCon", "evalObjConGradient", "evalHvecProduct"}
         /\ solvedAt(model, last.args.x).ok) =>
        CASE last.op = "evalObjCon" ->
                 last.out = objCon(model, last.args.x,
                                   dot(solvedAt(model, last.args.x).u,
                                       solvedAt(model, last.args.x).f),
                                   obj_scale, penalty)
          [] last.op = "evalObjConGradient" ->
                 last.out = objConGradient(model, last.args.x,
                                           solvedAt(model, last.args.x).u,
                                           obj_scale, penalty)
          [] last.op = "evalHvecProduct" ->
                 last.out.hvec = hvecFrom(model, last.args.px,
                                          solvedAt(model, last.args.x).u,
                                          solvedAt(model, last.args.x).L, obj_scale)

\* a gradient returned for an x other than the x of the most recent solve,
\* and different from the gradient the displacements at x give
C11_GradientFromOtherSolve ==
    /\ last.op = "evalObjConGradient" /\ last.outcome = "returned"
    /\ solveX # None /\ solveX # last.args.x
    /\ solvedAt(model, last.args.x).ok
    /\ last.out.gobj # objConGradient(model, last.args.x,
                                      solvedAt(model, last.args.x).u,
                                      obj_scale, penalty).gobj

----------------------------------------------------------------------------
(* The initial point and its bounds, for lower bounds x_lb below, at and   *)
(* above the constructor's material fraction 1/nmats.                      *)

\* one bar, two materials (1/nmats = 1/2), x_lb = 0 (the default), 1/2, 3/4
BoundsModels ==
    { [OneBarArgs EXCEPT !.Avals = Vec(<<R(1), R(2)>>), !.rho = Vec(<<R(1), R(2)>>),
                         !.x_lb = lb] : lb \in {Zero, Half, <<3, 4>>} }

\* inputs within +/- no_bound: the two ends for a thickness, the two ends
\* and the lower bound itself for a material fraction
BoundsXSet(m) ==
    { x \in [0..(m.ndv - 1) -> {RNeg(m.no_bound), m.x_lb, m.no_bound}] :
         \A k \in 0..(m.ndv - 1) : k % m.nblock = 0 => x[k] # m.x_lb }

InitBounds == \E args \in BoundsModels : TrussAnalysis(args)

NextBounds ==
    \/ \E x \in BoundsXSet(model), gamma \in GammaSet(model) : setNewInitPointPenalty(x, gamma)
    \/ getVarsAndBounds

SpecBounds == InitBounds /\ [][NextBounds]_vars

\* C12: directly after construction and after any setNewInitPointPenalty
\* calls with inputs within +/- no_bound, getVarsAndBounds returns
\* lb[k] <= x[k] <= ub[k] for every slot k, with lb = -no_bound, ub = 1 in
\* the thickness slots and lb = max(0, x_lb), ub = no_bound in the material
\* slots.
C12_InitialPointInsideBounds ==
    last.op = "getVarsAndBounds" =>
        \A k \in 0..(model.ndv - 1) :
            /\ RLe(last.out.lb[k], last.out.x[k])
            /\ RLe(last.out.x[k], last.out.ub[k])
            /\ IF k % model.nblock = 0
               THEN last.out.lb[k] = RNeg(model.no_bound) /\ last.out.ub[k] = One
               ELSE /\ last.out.lb[k] = RMax(Zero, model.x_lb)
                    /\ last.out.ub[k] = model.no_bound

\* getVarsAndBounds called directly after construction returns a material
\* fraction 1/nmats below its lower bound x_lb
C12_ConstructedBelowLowerBound ==
    /\ last.op = "getVarsAndBounds" /\ calls = 1
    /\ \E k \in 0..(model.ndv - 1) :
           /\ k % model.nblock # 0
           /\ last.out.x[k] = Rat(1, model.nmats)
           /\ last.out.lb[k] = model.x_lb
           /\ RLt(last.out.x[k], last.out.lb[k])

=============================================================================
